---- MODULE Spec2Model ----
(***************************************************************************)
(* incus-migrate: the migration session of cmd/incus-migrate/main_migrate. *)
(*                                                                         *)
(* Two goroutines are modelled: the pipeline (run -> migrateInstance or    *)
(* migrateCustomVolume -> runMigration -> migrationHandler) and the        *)
(* interrupt listener started by run.  The environment delivers SIGINT     *)
(* and decides the outcome of every system call and remote call.           *)
(***************************************************************************)
EXTENDS Integers, Sequences, FiniteSets, TLC

\* Bounds of the model.
MaxMounts == 2      \* additional mount paths entered at the prompt
MaxSignals == 1     \* SIGINTs the environment delivers

(***************************************************************************)
(* Paths are Go strings: sequences of bytes.                               *)
(*   "/" = <<47>>, "/a" = <<47,97>>, "/a-" = <<47,97,45>>,                  *)
(*   "/a/b" = <<47,97,47,98>>                                              *)
(***************************************************************************)
Paths == { <<47>>, <<47, 97>>, <<47, 97, 45>>, <<47, 97, 47, 98>> }

\* filepath.Join(path, "converted-raw-image.img") as a value of config.SourcePath;
\* it lies in the fresh temporary directory and is none of the user's paths.
DestImg == << 116 >>

\* A path that names nothing on the source host.
NoSuchPath == << 47, 120 >>

Min(a, b) == IF a <= b THEN a ELSE b

\* Go's string comparison a < b: bytewise, a proper prefix sorts first.
StrLess(a, b) ==
    \/ \E i \in 1..Min(Len(a), Len(b)) :
          /\ a[i] < b[i]
          /\ \A j \in 1..(i - 1) : a[j] = b[j]
    \/ /\ Len(a) < Len(b)
       /\ \A j \in 1..Len(a) : a[j] = b[j]

\* Insert x into the ascending sequence s, after any element equal to it.
RECURSIVE Insert(_, _)
Insert(x, s) ==
    IF s = <<>> THEN <<x>>
    ELSE IF StrLess(x, Head(s)) THEN <<x>> \o s
    ELSE <<Head(s)>> \o Insert(x, Tail(s))

\* A sort that leaves the slice as it is (append order).
SortStrings_unsorted(s) == s

\* sort.Strings: the elements of s in ascending order, duplicates kept.
RECURSIVE SortStrings(_)
SortStrings(s) ==
    IF s = <<>> THEN <<>> ELSE Insert(Head(s), SortStrings(Tail(s)))

\* The migration types of the menu in run.
MigrationTypeContainer == "container"
MigrationTypeVM == "vm"
MigrationTypeVolumeFilesystem == "volume-filesystem"
MigrationTypeVolumeBlock == "volume-block"
MigrationTypes ==
    { MigrationTypeContainer, MigrationTypeVM,
      MigrationTypeVolumeFilesystem, MigrationTypeVolumeBlock }

\* A test of the migration type that lets only a container take the
\* filesystem branch.
IsFilesystemType_containerOnly(t) == t = MigrationTypeContainer

IsFilesystemType(t) ==
    t = MigrationTypeContainer \/ t = MigrationTypeVolumeFilesystem

\* The files runMigration creates beneath the temporary directory.
TmpDir == "incus-migrate_mount_"
RootfsDir == "rootfs"
RootImg == "root.img"
ConvertedImg == "converted-raw-image.img"

VARIABLES
    pc,                 \* position of the pipeline goroutine
    lpc,                \* position of the interrupt listener goroutine
    migrationType,      \* the type picked at the menu, "" before
    clientFingerprint,  \* "" or the fingerprint of the session's certificate
    SourcePath,         \* config.SourcePath
    Mounts,             \* config.Mounts
    srcBlock,           \* the source path is a block device
    srcSig,             \* what the first bytes of the source announce, see Signatures
    SourceFormat,       \* config.SourceFormat, the label askSourcePath sets
    retrying,           \* history: the last answer at the source prompt was rejected
    declined,           \* gatherCustomVolumeInfo returned the empty config
    locked,             \* runtime.LockOSThread is in effect
    unshareCalls,       \* calls of unix.Unshare(CLONE_NEWNS)
    unshared,           \* the thread is in a mount namespace of its own
    rootPrivate,        \* / was remounted private-recursive
    bindAttempts,       \* bind mounts attempted (successful or not)
    files,              \* files and directories that exist beneath (and incl.) TmpDir
    mountTable,         \* mounts of the private namespace, oldest first
    mountIdx,           \* next entry of the mount list setupSource handles
    fullPath,           \* the path handed to the migration handler
    convCalls,          \* invocations of the external converter
    convFlags,          \* cache flags of the converter invocation
    probeOK,            \* history: which direct-I/O probes succeeded
    cleanupRuns,        \* history: runs of the deferred clean-up
    remote,             \* "none", "exists", "deleted"
    createCalls,        \* remote creation calls made
    deleteCalls,        \* remote delete calls made
    reverterHooks,      \* hooks registered with the reverter
    committed,          \* reverter.Success was called
    transferred,        \* history: transferRootfs returned nil
    ctxCancelled,       \* cancel() was called on the shared context
    sigChan,            \* signals buffered in sigChan (capacity 1)
    sigCount,           \* SIGINTs delivered so far
    certDeletes,        \* calls of server.DeleteCertificate
    result,             \* what the pipeline returns: "none", "nil" or an error
    exited,             \* "no", "return" (run returned) or "os.Exit"
    stages,             \* history: the session stages reached, in order
    firstErr,           \* history: the error of the first failing stage
    errDetail,          \* what the returned error names: a tool and a path
    intrAt,             \* history: what the session held when SIGINT arrived
    stepsAfterCancel    \* history: pipeline steps taken after cancel()

vars == << pc, lpc, migrationType, clientFingerprint, SourcePath, Mounts,
           srcBlock, srcSig, SourceFormat, retrying, declined, locked, unshareCalls,
           unshared, rootPrivate, bindAttempts, cleanupRuns, files, mountTable,
           mountIdx, fullPath, convCalls, convFlags, probeOK, remote, createCalls,
           deleteCalls, reverterHooks, committed, transferred, ctxCancelled,
           sigChan, sigCount, certDeletes, result, exited, stages, firstErr,
           errDetail, intrAt, stepsAfterCancel >>

\* Groups of variables an action leaves alone.
configVars == << migrationType, clientFingerprint, SourcePath, Mounts,
                 srcBlock, srcSig, SourceFormat, retrying, declined >>
localVars == << locked, unshareCalls, unshared, rootPrivate, bindAttempts,
                cleanupRuns, files, mountTable, mountIdx,
                fullPath, convCalls, convFlags, probeOK >>
remoteVars == << remote, createCalls, deleteCalls, reverterHooks, committed,
                 transferred >>
listenerVars == << lpc, ctxCancelled, sigChan, sigCount, certDeletes, intrAt >>

\* What the session holds: a created remote resource whose transfer has not
\* completed, and a temporary directory.
\* An error that names neither a tool nor a path.
NoDetail == [tool |-> "", path |-> <<>>]

NoInterrupt == [arrived |-> FALSE, created |-> FALSE, tmp |-> FALSE]
Holding ==
    [arrived |-> TRUE,
     created |-> remote = "exists" /\ pc \in {"add_handler", "transfer", "transferring"},
     tmp |-> TmpDir \in files /\ pc \notin {"unlock", "run_return"}]

\* State after askServer returned and the listener goroutine was started.
Init ==
    /\ pc = "ask_type"
    /\ lpc = "wait"
    /\ migrationType = ""
    /\ clientFingerprint \in {"", "fp"}
    /\ SourcePath = <<>>
    /\ Mounts = <<>>
    /\ srcBlock = FALSE
    /\ srcSig = "other"
    /\ SourceFormat = ""
    /\ retrying = FALSE
    /\ declined = FALSE
    /\ locked = FALSE
    /\ unshareCalls = 0
    /\ unshared = FALSE
    /\ rootPrivate = FALSE
    /\ bindAttempts = 0
    /\ cleanupRuns = 0
    /\ files = {}
    /\ mountTable = <<>>
    /\ mountIdx = 0
    /\ fullPath = ""
    /\ convCalls = 0
    /\ convFlags = <<>>
    /\ probeOK = [from |-> FALSE, to |-> FALSE]
    /\ remote = "none"
    /\ createCalls = 0
    /\ deleteCalls = 0
    /\ reverterHooks = 0
    /\ committed = FALSE
    /\ transferred = FALSE
    /\ ctxCancelled = FALSE
    /\ sigChan = 0
    /\ sigCount = 0
    /\ certDeletes = 0
    /\ result = "none"
    /\ exited = "no"
    /\ stages = << "Initializing" >>
    /\ firstErr = "none"
    /\ errDetail = NoDetail
    /\ intrAt = NoInterrupt
    /\ stepsAfterCancel = 0

\* Every pipeline step: the process is alive, and the step is counted once
\* the context has been cancelled.
PipelineStep(at) ==
    /\ exited = "no"
    /\ pc = at
    /\ stepsAfterCancel' = IF ctxCancelled THEN 1 ELSE stepsAfterCancel

\* A stage fails: the error is recorded, with the tool and the path its
\* message names, and control goes to `next`.
FailWith(err, detail, next) ==
    /\ result' = err
    /\ firstErr' = IF firstErr = "none" THEN err ELSE firstErr
    /\ errDetail' = detail
    /\ pc' = next

Fail(err, next) == FailWith(err, NoDetail, next)

(***************************************************************************)
(* Gathering the request: run, gatherInstanceInfo, gatherCustomVolumeInfo. *)
(***************************************************************************)

\* run: the menu of migration types.
AskType(t) ==
    /\ PipelineStep("ask_type")
    /\ migrationType' = t
    /\ pc' = "ask_source"
    /\ UNCHANGED << clientFingerprint, SourcePath, Mounts, srcBlock, srcSig, SourceFormat,
                    retrying, declined,
                    result, firstErr, errDetail, exited, stages >>
    /\ UNCHANGED << localVars, remoteVars, listenerVars >>

\* A prompt returns an error (the asker fails): the error is returned up to run.
PromptFails ==
    /\ exited = "no"
    /\ pc \in {"ask_type", "ask_source", "ask_mounts", "confirm"}
    /\ stepsAfterCancel' = IF ctxCancelled THEN 1 ELSE stepsAfterCancel
    /\ Fail("ErrPrompt", "run_return")
    /\ UNCHANGED << configVars, localVars, remoteVars, listenerVars, exited, stages >>

\* What the first bytes of a source can be: the magic number of a qcow2
\* image, that of a vmdk image, or anything else.
Signatures == {"qcow2-magic", "vmdk-magic", "other"}

\* archive.DetectCompression: the extension it reports for a file is read off
\* the first bytes of the content, whatever kind of file the path names.
DetectCompressionExt(sig) ==
    IF sig = "qcow2-magic" THEN ".qcow2"
    ELSE IF sig = "vmdk-magic" THEN ".vmdk"
    ELSE ""

\* askSourcePath, the validator: the label of an accepted path. Only a disk
\* migration is labelled; a block device is recognised before any signature.
DetectedFormat_signatureFirst(t, blk, sig) ==
    IF t = MigrationTypeVM \/ t = MigrationTypeVolumeBlock
    THEN IF DetectCompressionExt(sig) = ".qcow2" THEN "qcow2"
         ELSE IF DetectCompressionExt(sig) = ".vmdk" THEN "vmdk"
         ELSE IF blk THEN "Block device"
         ELSE "raw"
    ELSE ""

DetectedFormat(t, blk, sig) ==
    IF t = MigrationTypeVM \/ t = MigrationTypeVolumeBlock
    THEN IF blk THEN "Block device"
         ELSE IF DetectCompressionExt(sig) = ".qcow2" THEN "qcow2"
         ELSE IF DetectCompressionExt(sig) = ".vmdk" THEN "vmdk"
         ELSE "raw"
    ELSE ""

\* askSourcePath: a path that does not exist is rejected by the validator and
\* the prompt is shown again; nothing of the request is set.
RejectSourcePath(p) ==
    /\ PipelineStep("ask_source")
    /\ p \notin Paths
    /\ retrying' = TRUE
    /\ UNCHANGED declined
    /\ pc' = "ask_source"
    /\ UNCHANGED << migrationType, clientFingerprint, SourcePath, Mounts, srcBlock,
                    srcSig, SourceFormat, result, firstErr, errDetail, exited, stages >>
    /\ UNCHANGED << localVars, remoteVars, listenerVars >>

\* askSourcePath: an existing path is accepted. For a VM or a block volume the
\* path may be a block device and its content may carry an image signature.
AskSourcePath(p, blk, sig) ==
    /\ PipelineStep("ask_source")
    /\ p \in Paths
    /\ IsFilesystemType(migrationType) => (blk = FALSE /\ sig = "other")
    /\ SourcePath' = p
    /\ srcBlock' = blk
    /\ srcSig' = sig
    /\ SourceFormat' = DetectedFormat(migrationType, blk, sig)
    /\ retrying' = FALSE
    /\ UNCHANGED declined
    /\ pc' = IF migrationType \in {MigrationTypeContainer, MigrationTypeVM}
             THEN "ask_mounts" ELSE "confirm"
    /\ UNCHANGED << migrationType, clientFingerprint, Mounts, result, firstErr, errDetail,
                    exited, stages >>
    /\ UNCHANGED << localVars, remoteVars, listenerVars >>

\* A mounts prompt that is shown whatever the instance type.
AddMount_anyType(p) ==
    /\ PipelineStep("ask_mounts")
    /\ Len(Mounts) < MaxMounts
    /\ Mounts' = Append(Mounts, p)
    /\ pc' = "ask_mounts"
    /\ UNCHANGED << migrationType, clientFingerprint, SourcePath, srcBlock, srcSig,
                    SourceFormat, retrying, declined,
                    result, firstErr, errDetail, exited, stages >>
    /\ UNCHANGED << localVars, remoteVars, listenerVars >>

\* gatherInstanceInfo: one more existing path is entered at the mounts prompt,
\* which only a container migration shows.
AddMount(p) ==
    /\ PipelineStep("ask_mounts")
    /\ migrationType = MigrationTypeContainer
    /\ Len(Mounts) < MaxMounts
    /\ Mounts' = Append(Mounts, p)
    /\ pc' = "ask_mounts"
    /\ UNCHANGED << migrationType, clientFingerprint, SourcePath, srcBlock, srcSig,
                    SourceFormat, retrying, declined,
                    result, firstErr, errDetail, exited, stages >>
    /\ UNCHANGED << localVars, remoteVars, listenerVars >>

\* gatherInstanceInfo: the remaining prompts are answered and no (more) mounts
\* are entered; option 1 of the overrides menu begins the migration.
EndMounts ==
    /\ PipelineStep("ask_mounts")
    /\ pc' = "rm_start"
    /\ UNCHANGED << configVars, result, firstErr, errDetail, exited, stages >>
    /\ UNCHANGED << localVars, remoteVars, listenerVars >>

\* A final confirmation after which migrateCustomVolume does not test for the
\* empty config and enters runMigration.
ConfirmVolume_noNameTest(shouldMigrate) ==
    /\ PipelineStep("confirm")
    /\ declined' = ~shouldMigrate
    /\ pc' = "rm_start"
    /\ UNCHANGED << result, firstErr, errDetail >>
    /\ UNCHANGED << migrationType, clientFingerprint, SourcePath, Mounts, srcBlock,
                    srcSig, SourceFormat, retrying, exited, stages >>
    /\ UNCHANGED << localVars, remoteVars, listenerVars >>

\* gatherCustomVolumeInfo / migrateCustomVolume: the final confirmation.
\* A declined confirmation returns the empty config and run returns nil.
ConfirmVolume(shouldMigrate) ==
    /\ PipelineStep("confirm")
    /\ declined' = ~shouldMigrate
    /\ IF shouldMigrate
       THEN /\ pc' = "rm_start"
            /\ UNCHANGED << result, firstErr, errDetail >>
       ELSE /\ pc' = "run_return"
            /\ result' = "nil"
            /\ UNCHANGED << firstErr, errDetail >>
    /\ UNCHANGED << migrationType, clientFingerprint, SourcePath, Mounts, srcBlock,
                    srcSig, SourceFormat, retrying, exited, stages >>
    /\ UNCHANGED << localVars, remoteVars, listenerVars >>

(***************************************************************************)
(* The mount table and the files beneath the temporary directory.          *)
(***************************************************************************)

\* Mount points beneath the temporary directory: the directory itself,
\* <tmp>/root.img, and <tmp>/rootfs/<rel>.
TmpTarget == [dir |-> TmpDir, rel |-> <<>>]
RootImgTarget == [dir |-> RootImg, rel |-> <<>>]

\* setupSource: the mount point of a source path beneath the rootfs directory.
MountPoint(src) == [dir |-> RootfsDir, rel |-> src]

IsPrefix(p, q) ==
    /\ Len(p) <= Len(q)
    /\ \A j \in 1..Len(p) : p[j] = q[j]

\* Target t lies at or beneath target u.
Beneath(t, u) ==
    \/ u = TmpTarget
    \/ /\ t.dir = u.dir
       /\ IsPrefix(u.rel, t.rel)

IsMountPoint(tbl, u) == \E i \in 1..Len(tbl) : tbl[i].tgt = u

\* unix.Unmount(u, MNT_DETACH): when u is a mount point, the mount and all
\* mounts beneath it are detached; otherwise the call fails (EINVAL) and
\* nothing changes.
Unmount(tbl, u) ==
    IF IsMountPoint(tbl, u)
    THEN SelectSeq(tbl, LAMBDA m : ~Beneath(m.tgt, u))
    ELSE tbl

\* The entries of directory f that exist.
Children(fs, f) ==
    IF f = TmpDir THEN fs \ {TmpDir} ELSE {}

\* The target a file name stands for.
TargetOf(f) ==
    CASE f = TmpDir -> TmpTarget
      [] f = RootfsDir -> MountPoint(<<>>)
      [] OTHER -> [dir |-> f, rel |-> <<>>]

\* os.Remove(f): unlink or rmdir. It fails, changing nothing, on a directory
\* that is not empty (ENOTEMPTY) and on a name with a mount on or beneath it
\* (EBUSY).
Remove(fs, tbl, f) ==
    IF \/ Children(fs, f) # {}
       \/ \E i \in 1..Len(tbl) : Beneath(tbl[i].tgt, TargetOf(f))
    THEN fs
    ELSE fs \ {f}

Stage(s) == stages' = Append(stages, s)

\* Where runMigration hands over to the migration handler: migrateInstance's
\* handler first asks for the architecture, migrateCustomVolume's does not.
HandlerEntry ==
    IF migrationType \in {MigrationTypeContainer, MigrationTypeVM}
    THEN "arch" ELSE "create"

(***************************************************************************)
(* runMigration                                                            *)
(***************************************************************************)

\* The primary path is appended to the mounts, the list is sorted and the
\* goroutine is pinned to its thread.
RunMigrationStart ==
    /\ PipelineStep("rm_start")
    /\ Mounts' = SortStrings(Append(Mounts, SourcePath))
    /\ locked' = TRUE
    /\ pc' = "unshare"
    /\ UNCHANGED << migrationType, clientFingerprint, SourcePath, srcBlock, srcSig,
                    SourceFormat, retrying, declined >>
    /\ UNCHANGED << unshareCalls, unshared, rootPrivate, bindAttempts, cleanupRuns, files,
                    mountTable, mountIdx, fullPath,
                    convCalls, convFlags, probeOK >>
    /\ UNCHANGED << remoteVars, listenerVars, result, firstErr, errDetail, exited, stages >>

\* unix.Unshare(CLONE_NEWNS) that goes on after a failure.
Unshare_ignoreError(ok) ==
    /\ PipelineStep("unshare")
    /\ unshareCalls' = unshareCalls + 1
    /\ unshared' = ok
    /\ pc' = "private"
    /\ UNCHANGED << result, firstErr, errDetail >>
    /\ UNCHANGED << locked, rootPrivate, bindAttempts, cleanupRuns, files, mountTable,
                    mountIdx,
                    fullPath, convCalls, convFlags, probeOK >>
    /\ UNCHANGED << configVars, remoteVars, listenerVars, exited, stages >>

\* unix.Unshare(CLONE_NEWNS)
Unshare(ok) ==
    /\ PipelineStep("unshare")
    /\ unshareCalls' = unshareCalls + 1
    /\ IF ok
       THEN /\ unshared' = TRUE
            /\ pc' = "private"
            /\ UNCHANGED << result, firstErr, errDetail >>
       ELSE /\ Fail("ErrUnshare", "unlock")
            /\ UNCHANGED unshared
    /\ UNCHANGED << locked, rootPrivate, bindAttempts, cleanupRuns, files, mountTable,
                    mountIdx,
                    fullPath, convCalls, convFlags, probeOK >>
    /\ UNCHANGED << configVars, remoteVars, listenerVars, exited, stages >>

\* unix.Mount("", "/", "", MS_REC|MS_PRIVATE, "")
MountPrivate(ok) ==
    /\ PipelineStep("private")
    /\ IF ok
       THEN /\ rootPrivate' = TRUE
            /\ Stage("SandboxReady")
            /\ pc' = "mkdirtemp"
            /\ UNCHANGED << result, firstErr, errDetail >>
       ELSE /\ Fail("ErrPrivate", "unlock")
            /\ UNCHANGED << rootPrivate, stages >>
    /\ UNCHANGED << locked, unshareCalls, unshared, bindAttempts, cleanupRuns, files,
                    mountTable, mountIdx, fullPath,
                    convCalls, convFlags, probeOK >>
    /\ UNCHANGED << configVars, remoteVars, listenerVars, exited >>

\* os.MkdirTemp; on success the deferred clean-up is registered.
MkdirTemp(ok) ==
    /\ PipelineStep("mkdirtemp")
    /\ IF ok
       THEN /\ files' = {TmpDir}
            /\ pc' = IF IsFilesystemType(migrationType) THEN "mkdir_rootfs" ELSE "detect"
            /\ UNCHANGED << result, firstErr, errDetail >>
       ELSE /\ Fail("ErrMkdirTemp", "unlock")
            /\ UNCHANGED files
    /\ UNCHANGED << locked, unshareCalls, unshared, rootPrivate, bindAttempts, cleanupRuns,
                    mountTable, mountIdx, fullPath,
                    convCalls, convFlags, probeOK >>
    /\ UNCHANGED << configVars, remoteVars, listenerVars, exited, stages >>

\* os.Mkdir(<tmp>/rootfs)
MkdirRootfs(ok) ==
    /\ PipelineStep("mkdir_rootfs")
    /\ fullPath' = RootfsDir
    /\ IF ok
       THEN /\ files' = files \cup {RootfsDir}
            /\ mountIdx' = 1
            /\ pc' = "setup_source"
            /\ UNCHANGED << result, firstErr, errDetail >>
       ELSE /\ Fail("ErrMkdirRootfs", "cleanup")
            /\ UNCHANGED << files, mountIdx >>
    /\ UNCHANGED << locked, unshareCalls, unshared, rootPrivate, bindAttempts, cleanupRuns,
                    mountTable, convCalls, convFlags, probeOK >>
    /\ UNCHANGED << configVars, remoteVars, listenerVars, exited, stages >>

\* setupSource, one entry of the sorted mount list per step: the source path
\* is bind-mounted at its mount point beneath the rootfs directory; a failing
\* mount aborts the build and leaves the earlier mounts in place.
SetupSourceMount(ok) ==
    /\ PipelineStep("setup_source")
    /\ bindAttempts' = bindAttempts + 1
    /\ mountIdx <= Len(Mounts)
    /\ IF ok
       THEN /\ mountTable' = Append(mountTable,
                                    [src |-> Mounts[mountIdx],
                                     tgt |-> MountPoint(Mounts[mountIdx]),
                                     ro |-> TRUE])
            /\ mountIdx' = mountIdx + 1
            /\ IF mountIdx = Len(Mounts)
               THEN /\ Stage("SourceAssembled")
                    /\ pc' = HandlerEntry
               ELSE /\ pc' = "setup_source"
                    /\ UNCHANGED stages
            /\ UNCHANGED << result, firstErr, errDetail >>
       ELSE /\ Fail("ErrSetupSource", "cleanup")
            /\ UNCHANGED << mountTable, mountIdx, stages >>
    /\ UNCHANGED << locked, unshareCalls, unshared, rootPrivate, cleanupRuns, files,
                    fullPath, convCalls, convFlags, probeOK >>
    /\ UNCHANGED << configVars, remoteVars, listenerVars, exited >>

\* archive.DetectCompression on the source path: the extension of the
\* format its content signature names.
DetectCompression ==
    /\ PipelineStep("detect")
    /\ pc' = IF DetectCompressionExt(srcSig) = ".qcow2"
                \/ DetectCompressionExt(srcSig) = ".vmdk"
             THEN "lookpath" ELSE "write_rootimg"
    /\ UNCHANGED << configVars, localVars, remoteVars, listenerVars,
                    result, firstErr, errDetail, exited, stages >>

\* The first word of the conversion command archive.DetectCompression returns.
ConvCmd0 == "convCmd[0]"

\* exec.LookPath(convCmd[0])
LookPath(ok) ==
    /\ PipelineStep("lookpath")
    /\ IF ok
       THEN /\ pc' = "convert"
            /\ UNCHANGED << result, firstErr, errDetail >>
       ELSE FailWith("ErrToolNotFound", [tool |-> ConvCmd0, path |-> <<>>], "cleanup")
    /\ UNCHANGED << configVars, localVars, remoteVars, listenerVars, exited, stages >>

\* A probe that would create the file it opens: it succeeds whenever the
\* filesystem supports direct I/O.
ProbeDirect_creates(exists, dio) == dio

\* os.OpenFile(f, O_DIRECT|O_RDONLY, 0) succeeds when the file exists and
\* its filesystem supports direct I/O.
ProbeDirect(exists, dio) == exists /\ dio

\* Cache flags that do not depend on the probes.
CacheFlags_always(from, to) == << "-T", "none", "-t", "none" >>

\* The cache flags of the converter command line, after "-p -t writeback".
CacheFlags(from, to) ==
    (IF from THEN << "-T", "none" >> ELSE <<>>) \o
    (IF to THEN << "-t", "none" >> ELSE <<>>)

\* A conversion that replaces config.SourcePath before the run is checked.
Convert_replaceFirst(srcDio, dstDio, ok, partial) ==
    /\ PipelineStep("convert")
    /\ ok => ~partial
    /\ probeOK' = [from |-> ProbeDirect(TRUE, srcDio),
                   to |-> ProbeDirect(ConvertedImg \in files, dstDio)]
    /\ convFlags' = CacheFlags(probeOK'.from, probeOK'.to)
    /\ convCalls' = convCalls + 1
    /\ SourcePath' = DestImg
    /\ IF ok
       THEN /\ files' = files \cup {ConvertedImg}
            /\ pc' = "write_rootimg"
            /\ UNCHANGED << result, firstErr, errDetail >>
       ELSE /\ files' = IF partial THEN files \cup {ConvertedImg} ELSE files
            /\ FailWith("ErrConvert", [tool |-> "", path |-> SourcePath], "cleanup")
    /\ UNCHANGED << migrationType, clientFingerprint, Mounts, srcBlock, srcSig,
                    SourceFormat, retrying, declined >>
    /\ UNCHANGED << locked, unshareCalls, unshared, rootPrivate, bindAttempts, cleanupRuns,
                    mountTable, mountIdx, fullPath >>
    /\ UNCHANGED << remoteVars, listenerVars, exited, stages >>

\* The direct I/O probes and the run of the converter. srcDio and dstDio say
\* whether the filesystems of the source and of the temporary directory
\* support direct I/O; a failed run may leave a partial destination file.
Convert(srcDio, dstDio, ok, partial) ==
    /\ PipelineStep("convert")
    /\ ok => ~partial
    /\ probeOK' = [from |-> ProbeDirect(TRUE, srcDio),
                   to |-> ProbeDirect(ConvertedImg \in files, dstDio)]
    /\ convFlags' = CacheFlags(probeOK'.from, probeOK'.to)
    /\ convCalls' = convCalls + 1
    /\ IF ok
       THEN /\ files' = files \cup {ConvertedImg}
            /\ SourcePath' = DestImg
            /\ pc' = "write_rootimg"
            /\ UNCHANGED << result, firstErr, errDetail >>
       ELSE /\ files' = IF partial THEN files \cup {ConvertedImg} ELSE files
            /\ FailWith("ErrConvert", [tool |-> "", path |-> SourcePath], "cleanup")
            /\ UNCHANGED SourcePath
    /\ UNCHANGED << migrationType, clientFingerprint, Mounts, srcBlock, srcSig,
                    SourceFormat, retrying, declined >>
    /\ UNCHANGED << locked, unshareCalls, unshared, rootPrivate, bindAttempts, cleanupRuns,
                    mountTable, mountIdx, fullPath >>
    /\ UNCHANGED << remoteVars, listenerVars, exited, stages >>

\* os.WriteFile(<tmp>/root.img, nil, 0o644)
WriteRootImg(ok) ==
    /\ PipelineStep("write_rootimg")
    /\ fullPath' = TmpDir
    /\ IF ok
       THEN /\ files' = files \cup {RootImg}
            /\ pc' = "bind_mount"
            /\ UNCHANGED << result, firstErr, errDetail >>
       ELSE /\ Fail("ErrWriteFile", "cleanup")
            /\ UNCHANGED files
    /\ UNCHANGED << locked, unshareCalls, unshared, rootPrivate, bindAttempts, cleanupRuns,
                    mountTable, mountIdx, convCalls, convFlags, probeOK >>
    /\ UNCHANGED << configVars, remoteVars, listenerVars, exited, stages >>

\* A bind mount of the image whose failure is ignored.
BindMount_ignoreError(ok) ==
    /\ PipelineStep("bind_mount")
    /\ bindAttempts' = bindAttempts + 1
    /\ mountTable' = IF ok
                     THEN Append(mountTable,
                                 [src |-> SourcePath, tgt |-> RootImgTarget, ro |-> FALSE])
                     ELSE mountTable
    /\ pc' = "remount_ro"
    /\ UNCHANGED << result, firstErr, errDetail >>
    /\ UNCHANGED << locked, unshareCalls, unshared, rootPrivate, cleanupRuns, files,
                    mountIdx, fullPath, convCalls, convFlags, probeOK >>
    /\ UNCHANGED << configVars, remoteVars, listenerVars, exited, stages >>

\* unix.Mount(config.SourcePath, <tmp>/root.img, "none", MS_BIND, "")
BindMount(ok) ==
    /\ PipelineStep("bind_mount")
    /\ bindAttempts' = bindAttempts + 1
    /\ IF ok
       THEN /\ mountTable' = Append(mountTable,
                                    [src |-> SourcePath, tgt |-> RootImgTarget, ro |-> FALSE])
            /\ pc' = "remount_ro"
            /\ UNCHANGED << result, firstErr, errDetail >>
       ELSE /\ FailWith("ErrMount", [tool |-> "", path |-> SourcePath], "cleanup")
            /\ UNCHANGED mountTable
    /\ UNCHANGED << locked, unshareCalls, unshared, rootPrivate, cleanupRuns, files,
                    mountIdx, fullPath, convCalls, convFlags, probeOK >>
    /\ UNCHANGED << configVars, remoteVars, listenerVars, exited, stages >>

\* A read-only remount whose failure is ignored.
RemountReadOnly_ignoreError(ok) ==
    /\ PipelineStep("remount_ro")
    /\ mountTable' = IF ok
                     THEN [i \in 1..Len(mountTable) |->
                              IF mountTable[i].tgt = RootImgTarget
                              THEN [mountTable[i] EXCEPT !.ro = TRUE]
                              ELSE mountTable[i]]
                     ELSE mountTable
    /\ Stage("SourceAssembled")
    /\ pc' = HandlerEntry
    /\ UNCHANGED << result, firstErr, errDetail >>
    /\ UNCHANGED << locked, unshareCalls, unshared, rootPrivate, bindAttempts,
                    cleanupRuns, files,
                    mountIdx, fullPath, convCalls, convFlags, probeOK >>
    /\ UNCHANGED << configVars, remoteVars, listenerVars, exited >>

\* unix.Mount("", <tmp>/root.img, "none", MS_BIND|MS_RDONLY|MS_REMOUNT, "")
RemountReadOnly(ok) ==
    /\ PipelineStep("remount_ro")
    /\ IF ok
       THEN /\ mountTable' = [i \in 1..Len(mountTable) |->
                                 IF mountTable[i].tgt = RootImgTarget
                                 THEN [mountTable[i] EXCEPT !.ro = TRUE]
                                 ELSE mountTable[i]]
            /\ Stage("SourceAssembled")
            /\ pc' = HandlerEntry
            /\ UNCHANGED << result, firstErr, errDetail >>
       ELSE /\ FailWith("ErrRemount", [tool |-> "", path |-> SourcePath], "cleanup")
            /\ UNCHANGED << mountTable, stages >>
    /\ UNCHANGED << locked, unshareCalls, unshared, rootPrivate, bindAttempts, cleanupRuns,
                    files, mountIdx, fullPath, convCalls, convFlags, probeOK >>
    /\ UNCHANGED << configVars, remoteVars, listenerVars, exited >>

\* The body of the deferred clean-up of runMigration: two unmounts, three
\* removals, all errors ignored. It yields the mount table and the files left.
CleanupState(tbl, fs) ==
    LET t1 == Unmount(tbl, TmpTarget)
        t2 == Unmount(t1, RootImgTarget)
        f1 == Remove(fs, t2, ConvertedImg)
        f2 == Remove(f1, t2, RootImg)
        f3 == Remove(f2, t2, TmpDir)
    IN [tbl |-> t2, fs |-> f3]

\* The deferred clean-up of runMigration runs.
Cleanup ==
    /\ PipelineStep("cleanup")
    /\ mountTable' = CleanupState(mountTable, files).tbl
    /\ files' = CleanupState(mountTable, files).fs
    /\ cleanupRuns' = cleanupRuns + 1
    /\ pc' = "unlock"
    /\ UNCHANGED << locked, unshareCalls, unshared, rootPrivate, bindAttempts,
                    mountIdx, fullPath, convCalls, convFlags, probeOK >>
    /\ UNCHANGED << configVars, remoteVars, listenerVars, result, firstErr, errDetail,
                    exited,
                    stages >>

\* The deferred runtime.UnlockOSThread; runMigration returns.
UnlockOSThread ==
    /\ PipelineStep("unlock")
    /\ locked' = FALSE
    /\ pc' = "run_return"
    /\ UNCHANGED << unshareCalls, unshared, rootPrivate, bindAttempts, cleanupRuns, files,
                    mountTable, mountIdx, fullPath,
                    convCalls, convFlags, probeOK >>
    /\ UNCHANGED << configVars, remoteVars, listenerVars, result, firstErr, errDetail,
                    exited,
                    stages >>

(***************************************************************************)
(* The migration handlers of migrateInstance and migrateCustomVolume       *)
(***************************************************************************)

\* migrateInstance: osarch.ArchitectureGetLocal, before the reverter exists.
ArchitectureGetLocal(ok) ==
    /\ PipelineStep("arch")
    /\ IF ok
       THEN /\ pc' = "create"
            /\ UNCHANGED << result, firstErr, errDetail >>
       ELSE Fail("ErrArchitecture", "cleanup")
    /\ UNCHANGED << configVars, localVars, remoteVars, listenerVars, exited, stages >>

\* server.CreateInstance / server.CreateStoragePoolVolumeFromMigration, and on
\* success reverter.Add of the delete hook.
Create(ok) ==
    /\ PipelineStep("create")
    /\ createCalls' = createCalls + 1
    /\ IF ok
       THEN /\ remote' = "exists"
            /\ reverterHooks' = reverterHooks + 1
            /\ Stage("RemoteResourceCreated")
            /\ pc' = "add_handler"
            /\ UNCHANGED << result, firstErr, errDetail >>
       ELSE /\ Fail("ErrCreate", "revert")
            /\ UNCHANGED << remote, reverterHooks, stages >>
    /\ UNCHANGED << deleteCalls, committed, transferred >>
    /\ UNCHANGED << configVars, localVars, listenerVars, exited >>

\* op.AddHandler(progress.UpdateOp)
AddHandler(ok) ==
    /\ PipelineStep("add_handler")
    /\ IF ok
       THEN /\ pc' = "transfer"
            /\ UNCHANGED << result, firstErr, errDetail >>
       ELSE Fail("ErrAddHandler", "revert")
    /\ UNCHANGED << configVars, localVars, remoteVars, listenerVars, exited, stages >>

\* transferRootfs is entered.
TransferStart ==
    /\ PipelineStep("transfer")
    /\ Stage("Transferring")
    /\ pc' = "transferring"
    /\ UNCHANGED << configVars, localVars, remoteVars, listenerVars,
                    result, firstErr, errDetail, exited >>

\* The outcomes of transferRootfs: with the context cancelled a cancellation
\* error; otherwise success once the remote operation reported completion, or
\* the remote operation's error.
TransferOutcomes ==
    IF ctxCancelled THEN {"ErrCancelled"} ELSE {"nil", "ErrTransfer"}

\* transferRootfs returns and its error is not looked at.
TransferEnd_ignoreError(outcome) ==
    /\ PipelineStep("transferring")
    /\ outcome \in TransferOutcomes
    /\ pc' = "commit"
    /\ transferred' = (outcome = "nil")
    /\ UNCHANGED << result, firstErr, errDetail >>
    /\ UNCHANGED << remote, createCalls, deleteCalls, reverterHooks, committed >>
    /\ UNCHANGED << configVars, localVars, listenerVars, exited, stages >>

\* transferRootfs returns.
TransferEnd(outcome) ==
    /\ PipelineStep("transferring")
    /\ outcome \in TransferOutcomes
    /\ IF outcome = "nil"
       THEN /\ pc' = "commit"
            /\ transferred' = TRUE
            /\ UNCHANGED << result, firstErr, errDetail >>
       ELSE /\ Fail(outcome, "revert")
            /\ UNCHANGED transferred
    /\ UNCHANGED << remote, createCalls, deleteCalls, reverterHooks, committed >>
    /\ UNCHANGED << configVars, localVars, listenerVars, exited, stages >>

\* progress.Done, reverter.Success and return nil.
Commit ==
    /\ PipelineStep("commit")
    /\ committed' = TRUE
    /\ result' = "nil"
    /\ Stage("Committed")
    /\ pc' = "revert"
    /\ UNCHANGED << remote, createCalls, deleteCalls, reverterHooks, transferred >>
    /\ UNCHANGED << configVars, localVars, listenerVars, firstErr, errDetail, exited >>

\* A reverter whose hook does not run when the handler returns.
ReverterFail_noDelete ==
    /\ PipelineStep("revert")
    /\ pc' = "cleanup"
    /\ UNCHANGED << remote, createCalls, deleteCalls, reverterHooks, committed,
                    transferred >>
    /\ UNCHANGED << configVars, localVars, listenerVars, result, firstErr, errDetail,
                    exited, stages >>

\* The deferred reverter.Fail: unless Success was called, the registered hook
\* runs and deletes the remote resource (the call's result is ignored).
ReverterFail ==
    /\ PipelineStep("revert")
    /\ IF ~committed /\ reverterHooks > 0
       THEN /\ deleteCalls' = deleteCalls + reverterHooks
            /\ remote' = "deleted"
       ELSE UNCHANGED << deleteCalls, remote >>
    /\ pc' = "cleanup"
    /\ UNCHANGED << createCalls, reverterHooks, committed, transferred >>
    /\ UNCHANGED << configVars, localVars, listenerVars, result, firstErr, errDetail,
                    exited,
                    stages >>

(***************************************************************************)
(* run: return, and the interrupt listener                                 *)
(***************************************************************************)

\* run returns: the deferred certificate deletion runs when a certificate was
\* registered, and the process ends. The private mount namespace ends with it.
RunReturn ==
    /\ PipelineStep("run_return")
    /\ certDeletes' = IF clientFingerprint # "" THEN certDeletes + 1 ELSE certDeletes
    /\ exited' = "return"
    /\ pc' = "done"
    /\ mountTable' = <<>>
    /\ UNCHANGED << locked, unshareCalls, unshared, rootPrivate, bindAttempts, cleanupRuns,
                    files, mountIdx, fullPath,
                    convCalls, convFlags, probeOK >>
    /\ UNCHANGED << lpc, ctxCancelled, sigChan, sigCount, intrAt >>
    /\ UNCHANGED << configVars, remoteVars, result, firstErr, errDetail, stages >>

\* The environment delivers SIGINT: signal.Notify puts it into sigChan, whose
\* buffer holds one signal.
Interrupt ==
    /\ exited = "no"
    /\ sigCount < MaxSignals
    /\ sigCount' = sigCount + 1
    /\ sigChan' = 1
    /\ intrAt' = IF intrAt = NoInterrupt THEN Holding ELSE intrAt
    /\ UNCHANGED << pc, lpc, ctxCancelled, certDeletes, stepsAfterCancel >>
    /\ UNCHANGED << configVars, localVars, remoteVars, result, firstErr, errDetail,
                    exited, stages >>

\* A listener that goes from the signal straight to cancel().
ListenerReceive_noCertificate ==
    /\ exited = "no"
    /\ lpc = "wait"
    /\ sigChan = 1
    /\ sigChan' = 0
    /\ lpc' = "cancel"
    /\ UNCHANGED << pc, ctxCancelled, sigCount, certDeletes, intrAt, stepsAfterCancel >>
    /\ UNCHANGED << configVars, localVars, remoteVars, result, firstErr, errDetail,
                    exited, stages >>

\* Listener: <-sigChan
ListenerReceive ==
    /\ exited = "no"
    /\ lpc = "wait"
    /\ sigChan = 1
    /\ sigChan' = 0
    /\ lpc' = IF clientFingerprint # "" THEN "delete_cert" ELSE "cancel"
    /\ UNCHANGED << pc, ctxCancelled, sigCount, certDeletes, intrAt, stepsAfterCancel >>
    /\ UNCHANGED << configVars, localVars, remoteVars, result, firstErr, errDetail,
                    exited, stages >>

\* Listener: server.DeleteCertificate(clientFingerprint)
ListenerDeleteCertificate ==
    /\ exited = "no"
    /\ lpc = "delete_cert"
    /\ certDeletes' = certDeletes + 1
    /\ lpc' = "cancel"
    /\ UNCHANGED << pc, ctxCancelled, sigChan, sigCount, intrAt, stepsAfterCancel >>
    /\ UNCHANGED << configVars, localVars, remoteVars, result, firstErr, errDetail,
                    exited, stages >>

\* A listener that signals the token only once the pipeline has returned.
ListenerCancel_waitsForPipeline ==
    /\ exited = "no"
    /\ lpc = "cancel"
    /\ pc = "run_return"
    /\ ctxCancelled' = TRUE
    /\ lpc' = "exit"
    /\ UNCHANGED << pc, sigChan, sigCount, certDeletes, intrAt, stepsAfterCancel >>
    /\ UNCHANGED << configVars, localVars, remoteVars, result, firstErr, errDetail,
                    exited, stages >>

\* Listener: cancel()
ListenerCancel ==
    /\ exited = "no"
    /\ lpc = "cancel"
    /\ ctxCancelled' = TRUE
    /\ lpc' = "exit"
    /\ UNCHANGED << pc, sigChan, sigCount, certDeletes, intrAt, stepsAfterCancel >>
    /\ UNCHANGED << configVars, localVars, remoteVars, result, firstErr, errDetail,
                    exited, stages >>

\* Listener: os.Exit(1). No deferred function of the pipeline runs; the
\* private mount namespace ends with the process, the files stay.
ListenerExit ==
    /\ exited = "no"
    /\ lpc = "exit"
    /\ exited' = "os.Exit"
    /\ lpc' = "done"
    /\ mountTable' = <<>>
    /\ UNCHANGED << locked, unshareCalls, unshared, rootPrivate, bindAttempts, cleanupRuns,
                    files, mountIdx, fullPath,
                    convCalls, convFlags, probeOK >>
    /\ UNCHANGED << pc, ctxCancelled, sigChan, sigCount, certDeletes, intrAt,
                    stepsAfterCancel >>
    /\ UNCHANGED << configVars, remoteVars, result, firstErr, errDetail, stages >>

Next ==
    \/ \E t \in MigrationTypes : AskType(t)
    \/ PromptFails
    \/ \E p \in Paths, blk \in BOOLEAN, sig \in Signatures :
          AskSourcePath(p, blk, sig)
    \/ \E p \in {NoSuchPath} : RejectSourcePath(p)
    \/ \E p \in Paths : AddMount(p)
    \/ EndMounts
    \/ \E b \in BOOLEAN : ConfirmVolume(b)
    \/ RunMigrationStart
    \/ \E ok \in BOOLEAN : Unshare(ok)
    \/ \E ok \in BOOLEAN : MountPrivate(ok)
    \/ \E ok \in BOOLEAN : MkdirTemp(ok)
    \/ \E ok \in BOOLEAN : MkdirRootfs(ok)
    \/ \E ok \in BOOLEAN : SetupSourceMount(ok)
    \/ DetectCompression
    \/ \E ok \in BOOLEAN : LookPath(ok)
    \/ \E srcDio, dstDio, ok, partial \in BOOLEAN : Convert(srcDio, dstDio, ok, partial)
    \/ \E ok \in BOOLEAN : WriteRootImg(ok)
    \/ \E ok \in BOOLEAN : BindMount(ok)
    \/ \E ok \in BOOLEAN : RemountReadOnly(ok)
    \/ \E ok \in BOOLEAN : ArchitectureGetLocal(ok)
    \/ \E ok \in BOOLEAN : Create(ok)
    \/ \E ok \in BOOLEAN : AddHandler(ok)
    \/ TransferStart
    \/ \E o \in {"nil", "ErrTransfer", "ErrCancelled"} : TransferEnd(o)
    \/ Commit
    \/ ReverterFail
    \/ Cleanup
    \/ UnlockOSThread
    \/ RunReturn
    \/ Interrupt
    \/ ListenerReceive
    \/ ListenerDeleteCertificate
    \/ ListenerCancel
    \/ ListenerExit

Spec == Init /\ [][Next]_vars

\* The listener is a goroutine of its own: the Go scheduler runs it whenever
\* it can take a step, whatever the pipeline goroutine (locked to its OS
\* thread) is doing. Nothing is assumed of the pipeline, which may stay
\* blocked in any step for ever.
ListenerFairness ==
    /\ WF_vars(ListenerReceive)
    /\ WF_vars(ListenerDeleteCertificate)
    /\ WF_vars(ListenerCancel)
    /\ WF_vars(ListenerExit)

FairSpec == Spec /\ ListenerFairness

(***************************************************************************)
(* Properties                                                              *)
(***************************************************************************)

\* run has the pipeline's result in hand (runMigration, if entered, returned).
Returned == pc \in {"run_return", "done"}

\* The process has ended, by run returning or by os.Exit.
Ended == exited # "no"

\* The remote creation call succeeded.
Created == remote # "none"

\* p names a directory above q: /a above /a/b, / above /a, not /a above /a-.
ProperPathPrefix(p, q) ==
    /\ Len(p) < Len(q)
    /\ IsPrefix(p, q)
    /\ (p[Len(p)] = 47 \/ q[Len(p) + 1] = 47)

IsSorted(s) == \A i \in 1..(Len(s) - 1) : ~StrLess(s[i + 1], s[i])

Count(s, x) == Cardinality({i \in 1..Len(s) : s[i] = x})

SameElements(s, t) ==
    /\ Len(s) = Len(t)
    /\ \A i \in 1..Len(s) : Count(s, s[i]) = Count(t, s[i])

\* C1: when runMigration has returned, whatever the migration type and the
\* outcome, no mount remains beneath the temporary directory and the
\* temporary directory no longer exists.
C1_CleanAtReturn ==
    pc = "run_return" => (mountTable = <<>> /\ TmpDir \notin files)

\* C2: when the remote creation succeeded and a later step of the handler
\* failed (AddHandler or transferRootfs), the remote resource has been deleted
\* exactly once by the time the error is returned and by the time the process
\* has ended.
C2_RollbackBeforeReturnAndExit ==
    (/\ firstErr \in {"ErrAddHandler", "ErrTransfer", "ErrCancelled"}
     /\ (Returned \/ Ended))
    => (deleteCalls = 1 /\ remote = "deleted")

\* C3: when SIGINT arrived after the remote resource was created and before
\* the transfer completed, the process ends with the remote resource deleted
\* and a cancellation error as its result, never with a success.
C3_InterruptRollsBack ==
    (Ended /\ intrAt.created)
    => (remote = "deleted" /\ result = "ErrCancelled" /\ ~committed)

\* C4: when SIGINT arrived while the session owned a temporary directory and
\* the process was ended by the listener, the temporary files and the temporary
\* directory have been removed (the mounts end with the mount namespace).
C4_TornDownOnInterrupt ==
    (exited = "os.Exit" /\ intrAt.tmp) => (files = {} /\ mountTable = <<>>)

\* C5: the listener deletes the certificate (if one was registered) before it
\* cancels the context, cancels before it ends the process, and ends the
\* process only after the pipeline took a step with the context cancelled.
C5_CooperativeFirst ==
    /\ (ctxCancelled /\ clientFingerprint # "") => certDeletes >= 1
    /\ exited = "os.Exit" => (ctxCancelled /\ stepsAfterCancel >= 1)

\* C6: the remote delete call is made if and only if the remote creation
\* succeeded and the session did not commit: never without a successful
\* creation, never after a commit, and always by the end of a session that
\* created the resource and did not commit; a failing session returns the
\* error of the stage that failed.
C6_DeleteIffCreatedNotCommitted ==
    /\ deleteCalls > 0 => (Created /\ ~committed)
    /\ (Returned \/ Ended) => ((Created /\ ~committed) => deleteCalls > 0)
    /\ (Returned /\ firstErr # "none") => result = firstErr

StageOrder ==
    << "Initializing", "SandboxReady", "SourceAssembled",
       "RemoteResourceCreated", "Transferring", "Committed" >>

\* The source view is complete: every entry of the mount list is mounted
\* beneath the rootfs directory, or the image is mounted read-only on root.img.
Assembled ==
    IF IsFilesystemType(migrationType)
    THEN /\ mountIdx = Len(Mounts) + 1
         /\ \A i \in 1..Len(Mounts) :
               \E k \in 1..Len(mountTable) : mountTable[k].src = Mounts[i]
    ELSE \E k \in 1..Len(mountTable) :
            mountTable[k].tgt = RootImgTarget /\ mountTable[k].ro

\* The stages reached are an initial part of StageOrder; Committed is reached
\* exactly by a session that committed, and never together with a rollback; a
\* session that returns gives nil if it committed and an error if it did not.
C7_StagesInv ==
    /\ Len(stages) <= Len(StageOrder)
    /\ \A i \in 1..Len(stages) : stages[i] = StageOrder[i]
    /\ committed <=> stages = StageOrder
    /\ ~(committed /\ deleteCalls > 0)
    /\ (Returned /\ unshareCalls > 0) =>
          \/ committed /\ result = "nil"
          \/ ~committed /\ result \notin {"nil", "none"}

\* What a step that creates, starts the transfer or commits starts from.
C7_StagesStep ==
    /\ createCalls' > createCalls => (Assembled /\ rootPrivate)
    /\ (pc' = "transferring" /\ pc # "transferring") =>
          (remote = "exists" /\ createCalls = 1)
    /\ committed' /\ ~committed => (pc = "commit" /\ remote = "exists")

\* C7: a session passes the stages in the order Initializing, SandboxReady,
\* SourceAssembled, RemoteResourceCreated, Transferring, Committed, skipping
\* none: the remote creation call is made only with the source assembled, the
\* transfer starts only after the creation succeeded, and a session that
\* returns has either committed (nil) or failed (an error), never both.
C7_StageOrder == []C7_StagesInv /\ [][C7_StagesStep]_vars

C7_Witness == pc = "run_return" /\ committed /\ stages = StageOrder

\* C8: the sandbox step (unshare, then the private remount of /) runs at most
\* once, and exactly once and successfully, on the pinned thread, before the
\* temporary directory exists, before any bind mount is attempted and before
\* any remote creation call; when the unshare or the remount fails the session
\* returns that error and no directory, mount or remote call was made.
C8_SandboxFirst ==
    /\ unshareCalls <= 1
    /\ (TmpDir \in files \/ bindAttempts > 0 \/ mountTable # <<>> \/ createCalls > 0)
          => (unshareCalls = 1 /\ unshared /\ rootPrivate)
    /\ pc \in {"mkdirtemp", "mkdir_rootfs", "setup_source", "bind_mount"}
          => (locked /\ unshared /\ rootPrivate)
    /\ firstErr \in {"ErrUnshare", "ErrPrivate"}
          => /\ files = {} /\ bindAttempts = 0 /\ mountTable = <<>> /\ createCalls = 0
             /\ result = firstErr
             /\ pc \in {"unlock", "run_return", "done"}

C8_Witness ==
    unshareCalls = 1 /\ TmpDir \in files /\ bindAttempts > 0 /\ createCalls > 0

\* From the sort up to the end of setupSource the mount list is ascending and
\* holds the primary path, and a proper path prefix precedes its extensions in
\* the list and in the mount table.
C9_PlanInv ==
    pc \in {"unshare", "private", "mkdirtemp", "mkdir_rootfs", "setup_source"} =>
       /\ IsSorted(Mounts)
       /\ \E i \in 1..Len(Mounts) : Mounts[i] = SourcePath
       /\ \A i, j \in 1..Len(Mounts) :
             ProperPathPrefix(Mounts[i], Mounts[j]) => i < j
       /\ \A i, j \in 1..Len(mountTable) :
             ProperPathPrefix(mountTable[i].src, mountTable[j].src) => i < j

\* The sort keeps exactly the entered paths and the primary path.
C9_PlanStep ==
    (pc = "rm_start" /\ pc' = "unshare") =>
       SameElements(Mounts', Append(Mounts, SourcePath))

\* C9: the mount list handed to setupSource is the ascending (bytewise) sort of
\* the additional mount paths together with the primary path, so a path that
\* is a proper path prefix of another comes, and is mounted, before it.
C9_SortedPlan == []C9_PlanInv /\ [][C9_PlanStep]_vars

C9_Witness ==
    /\ pc = "setup_source"
    /\ Len(mountTable) = 2
    /\ ProperPathPrefix(mountTable[1].src, mountTable[2].src)

\* C10: the mount list handed to setupSource holds no source path (and so no
\* mount point) twice, whatever paths were entered at the prompts.
C10_NoCollision ==
    pc = "setup_source" =>
       \A i, j \in 1..Len(Mounts) : i # j => Mounts[i] # Mounts[j]

(***************************************************************************)
(* The disk branch of runMigration (VM and block volume).                  *)
(***************************************************************************)

DiskTypes == {MigrationTypeVM, MigrationTypeVolumeBlock}

\* The image is mounted on <tmp>/root.img; the mount is read-only.
ImageMounted == \E i \in 1..Len(mountTable) : mountTable[i].tgt = RootImgTarget
ImageReadOnly ==
    \E i \in 1..Len(mountTable) : mountTable[i].tgt = RootImgTarget /\ mountTable[i].ro

\* C11: in a VM or block-volume session the remote creation call and the
\* transfer come only after root.img was created, the image was bind-mounted
\* on it and the mount was made read-only, in that order; when the bind mount
\* or the remount fails the session returns that error and no remote call is
\* made, and the transfer never runs against a writable image mount.
C11_ImageInv ==
    migrationType \in DiskTypes =>
        /\ ImageMounted => RootImg \in files
        /\ (pc \in {"transfer", "transferring"} /\ exited = "no") => ImageReadOnly
        /\ firstErr \in {"ErrMount", "ErrRemount"}
              => /\ createCalls = 0
                 /\ remote = "none"
                 /\ result = firstErr
                 /\ pc \in {"cleanup", "unlock", "run_return", "done"}

C11_ImageStep ==
    migrationType \in DiskTypes =>
        /\ createCalls' > createCalls => (RootImg \in files /\ ImageReadOnly)
        /\ pc' = "transferring" /\ pc # "transferring" => ImageReadOnly
        /\ (ImageMounted' /\ ~ImageMounted) => (RootImg \in files /\ ~ImageReadOnly')
        /\ (ImageReadOnly' /\ ~ImageReadOnly) => ImageMounted

C11_ImageBeforeRemote == []C11_ImageInv /\ [][C11_ImageStep]_vars

C11_Witness ==
    /\ migrationType \in DiskTypes
    /\ pc = "transferring"
    /\ exited = "no"
    /\ createCalls = 1
    /\ ImageReadOnly

\* C12: the converter runs exactly once for a source labelled qcow2 or vmdk;
\* for a source labelled "Block device" or "raw" (a block device whose content
\* carries a qcow2 or vmdk signature included) it does not run and the path
\* that is bind-mounted is the path the user gave.
C12_NormalizerByClass ==
    migrationType \in DiskTypes =>
        /\ convCalls <= 1
        /\ (SourceFormat \in {"qcow2", "vmdk"} /\ RootImg \in files) => convCalls = 1
        /\ SourceFormat \in {"Block device", "raw"}
              => /\ convCalls = 0
                 /\ SourcePath \in Paths
                 /\ \A i \in 1..Len(mountTable) :
                        mountTable[i].tgt = RootImgTarget => mountTable[i].src \in Paths

\* The command line part `flags` holds `flag` followed by "none".
HasNoCache(flags, flag) ==
    \E i \in 1..(Len(flags) - 1) : flags[i] = flag /\ flags[i + 1] = "none"

\* C13: the direct-I/O probes are advisory. Whatever the two probes give, the
\* converter is run and no error comes from a probe; "-T none" is on the
\* command line exactly when the source probe succeeded and "-t none" exactly
\* when the destination probe succeeded.
C13_ProbesInv ==
    /\ \A from, to \in BOOLEAN :
          /\ HasNoCache(CacheFlags(from, to), "-T") <=> from
          /\ HasNoCache(CacheFlags(from, to), "-t") <=> to
    /\ convCalls > 0
          => /\ HasNoCache(convFlags, "-T") <=> probeOK.from
             /\ HasNoCache(convFlags, "-t") <=> probeOK.to
    /\ convCalls = 0 => convFlags = <<>>

C13_ProbesStep ==
    (pc = "convert" /\ pc' # "convert")
        => /\ convCalls' = convCalls + 1
           /\ firstErr' \in {"none", "ErrConvert"}
           /\ pc' \in {"write_rootimg", "cleanup"}
           /\ pc' = "cleanup" <=> firstErr' = "ErrConvert"

C13_ProbesAdvisory == []C13_ProbesInv /\ [][C13_ProbesStep]_vars

C13_Witness ==
    /\ pc = "write_rootimg"
    /\ convCalls = 1
    /\ probeOK.from /\ ~probeOK.to
    /\ convFlags = << "-T", "none" >>

\* C14: when the source is a qcow2 or vmdk image and the normalizer fails,
\* nothing downstream happens. A missing tool: the converter is never run and
\* the error names the tool. A failed run: the error carries the source path.
\* In both cases config.SourcePath is still the user's path, no image bind
\* mount is made and no remote creation call is made.
C14_NormalizerFailure ==
    firstErr \in {"ErrToolNotFound", "ErrConvert"}
        => /\ migrationType \in DiskTypes
           /\ DetectCompressionExt(srcSig) \in {".qcow2", ".vmdk"}
           /\ firstErr = "ErrToolNotFound"
                 => (convCalls = 0 /\ errDetail.tool = ConvCmd0)
           /\ firstErr = "ErrConvert"
                 => (convCalls = 1 /\ errDetail.path = SourcePath)
           /\ result = firstErr
           /\ SourcePath \in Paths
           /\ RootImg \notin files
           /\ bindAttempts = 0
           /\ ~ImageMounted
           /\ createCalls = 0
           /\ remote = "none"
           /\ pc \in {"cleanup", "unlock", "run_return", "done"}

C14_Witness ==
    /\ firstErr = "ErrConvert"
    /\ pc = "run_return"
    /\ convCalls = 1
    /\ SourcePath \in Paths

(***************************************************************************)
(* The migration handler: commit, target path, request.                    *)
(***************************************************************************)

\* C15: a session is reported as success (reverter.Success, the success
\* message, nil returned) only if transferRootfs returned nil; a transfer that
\* failed or was interrupted is never reported as success and the session
\* is never committed.
C15_CommitInv ==
    /\ committed => (transferred /\ firstErr = "none" /\ result = "nil")
    /\ committed <=> (\E i \in 1..Len(stages) : stages[i] = "Committed")
    /\ firstErr \in {"ErrTransfer", "ErrCancelled"}
          => (~committed /\ ~transferred /\ result = firstErr)
    /\ (pc = "transferring" /\ exited = "os.Exit") => (~committed /\ result # "nil")
    /\ (result = "nil" /\ createCalls > 0) => committed

C15_CommitStep ==
    (committed' /\ ~committed) => (pc = "commit" /\ transferred /\ result' = "nil")

C15_SuccessOnlyAfterTransfer == []C15_CommitInv /\ [][C15_CommitStep]_vars

C15_Witness ==
    /\ committed
    /\ transferred
    /\ result = "nil"
    /\ pc = "run_return"

FsTypes == {MigrationTypeContainer, MigrationTypeVolumeFilesystem}

\* The pipeline is inside migrationHandler, which was handed fullPath.
InHandler ==
    pc \in {"arch", "create", "add_handler", "transfer", "transferring", "commit", "revert"}

\* C16 as stated: in a VM or block-volume session the path handed to the
\* transfer step is the read-only bind-mounted image file, <tmp>/root.img.
C16_TargetIsImageFile ==
    (InHandler /\ migrationType \in DiskTypes) => fullPath = RootImg

\* C16, amended: the branch of runMigration and the path handed on are chosen
\* by the migration type and exclude each other. Container and filesystem
\* volume: only setupSource runs and the path is <tmp>/rootfs. VM and block
\* volume: only the normalizer and the image mount run and the path is the
\* temporary directory, in which root.img is the only mount point, mounted
\* read-only.
C16_TargetByKind ==
    /\ migrationType \in FsTypes
          => /\ convCalls = 0
             /\ RootImg \notin files /\ ConvertedImg \notin files
             /\ ~ImageMounted
             /\ fullPath \in {"", RootfsDir}
             /\ InHandler => (fullPath = RootfsDir /\ RootfsDir \in files)
    /\ migrationType \in DiskTypes
          => /\ RootfsDir \notin files
             /\ mountIdx = 0
             /\ \A i \in 1..Len(mountTable) : mountTable[i].tgt = RootImgTarget
             /\ fullPath \in {"", TmpDir}
             /\ InHandler => (fullPath = TmpDir /\ RootImg \in files)
             /\ (InHandler /\ exited = "no") => (Len(mountTable) = 1 /\ ImageReadOnly)

C16_Witness ==
    /\ migrationType = MigrationTypeVolumeBlock
    /\ pc = "transferring"
    /\ exited = "no"
    /\ fullPath = TmpDir
    /\ ImageReadOnly

\* C17: additional mount paths are present only in a container request. For
\* a VM, a filesystem volume and a block volume the request carries the source
\* path only, and the sorted mount list runMigration builds has exactly one
\* entry, the source path.
C17_MountsInv ==
    (migrationType # "" /\ migrationType # MigrationTypeContainer)
        => /\ Len(Mounts) <= 1
           /\ pc \in {"ask_source", "ask_mounts", "confirm", "rm_start"} => Mounts = <<>>
           /\ (pc = "unshare" \/ unshareCalls > 0)
                 => /\ Len(Mounts) = 1
                    /\ Mounts[1] \in Paths
                    /\ SourcePath = Mounts[1] \/ SourcePath = DestImg

C17_MountsStep ==
    (migrationType # MigrationTypeContainer /\ pc = "rm_start" /\ pc' = "unshare")
        => Mounts' = << SourcePath >>

C17_OnlyContainerHasMounts == []C17_MountsInv /\ [][C17_MountsStep]_vars

C17_Witness ==
    /\ migrationType = MigrationTypeVM
    /\ pc = "detect"
    /\ Mounts = << SourcePath >>

(***************************************************************************)
(* The deferred clean-up.                                                  *)
(***************************************************************************)

\* os.MkdirTemp succeeded, so the clean-up was deferred.
CleanupDeferred ==
    rootPrivate /\ pc # "mkdirtemp" /\ firstErr # "ErrMkdirTemp"

\* C18: the clean-up runs whenever a session that got its temporary
\* directory ends, after a commit or after a failure; it is idempotent (run
\* again, or run with nothing mounted or converted, it leaves the local state
\* of a single run), and it never replaces the error the session returns.
C18_CleanupAlwaysIdempotent ==
    /\ (Ended /\ CleanupDeferred) => cleanupRuns = 1
    /\ LET once == CleanupState(mountTable, files)
       IN CleanupState(once.tbl, once.fs) = once
    /\ (cleanupRuns > 0 /\ exited = "no")
          => CleanupState(mountTable, files) = [tbl |-> mountTable, fs |-> files]
    /\ (cleanupRuns > 0 /\ firstErr # "none") => result = firstErr
    /\ (cleanupRuns > 0 /\ firstErr = "none") => result = "nil"

(***************************************************************************)
(* The interrupt listener.                                                 *)
(***************************************************************************)

\* The listener has a signal to handle or is handling one.
ListenerBusy ==
    exited = "no" /\ (lpc \in {"delete_cert", "cancel", "exit"} \/ (lpc = "wait" /\ sigChan = 1))

\* C19: the listener never waits on the pipeline. With a signal to handle it
\* can always take its next step, wherever the pipeline is; an interrupt
\* delivered while the pipeline is blocked in a mount or namespace call, in the
\* converter or in the transfer leads to the token being cancelled and the
\* process ending, even if the pipeline never takes another step (the
\* fairness of FairSpec is that of the listener alone).
C19_ListenerInv ==
    /\ ListenerBusy
          => ENABLED (ListenerReceive \/ ListenerDeleteCertificate
                        \/ ListenerCancel \/ ListenerExit)
    /\ exited = "os.Exit" => ctxCancelled

C19_ListenerNeverWaits ==
    /\ []C19_ListenerInv
    /\ (sigCount > 0 /\ exited = "no") ~> Ended

C19_Witness ==
    /\ intrAt.arrived
    /\ pc = "transferring"
    /\ exited = "os.Exit"
    /\ ctxCancelled

(***************************************************************************)
(* The source prompt.                                                      *)
(***************************************************************************)

\* C20: for a VM or a block volume the accepted source gets exactly one
\* label: "Block device" for a block device, else "qcow2" for a qcow2
\* signature, else "vmdk" for a vmdk signature, else "raw". A container or a
\* filesystem volume gets no label. A path that does not exist is rejected:
\* the prompt is shown again and neither a path nor a label is set.
C20_SourceLabel ==
    /\ SourceFormat \in {"", "Block device", "qcow2", "vmdk", "raw"}
    /\ SourcePath # NoSuchPath
    /\ (pc \in {"ask_type", "ask_source"} \/ SourcePath = <<>>)
          => (SourcePath = <<>> /\ SourceFormat = "")
    /\ retrying => (pc \in {"ask_source", "run_return", "done"} /\ SourcePath = <<>>)
    /\ (SourcePath # <<>> /\ migrationType \in DiskTypes)
          => SourceFormat = IF srcBlock THEN "Block device"
                            ELSE IF srcSig = "qcow2-magic" THEN "qcow2"
                            ELSE IF srcSig = "vmdk-magic" THEN "vmdk"
                            ELSE "raw"
    /\ migrationType \in FsTypes => SourceFormat = ""

C20_Witness ==
    /\ migrationType = MigrationTypeVM
    /\ srcBlock
    /\ srcSig = "vmdk-magic"
    /\ SourceFormat = "Block device"
    /\ pc = "ask_mounts"

(***************************************************************************)
(* Teardown: the deferred functions of the handler, runMigration and run.  *)
(***************************************************************************)

\* A remote resource exists that the session created and did not commit.
Undeleted == remote = "exists" /\ ~committed

\* C21: a session that fails after the remote resource was created tears
\* down in the order: delete the remote resource, then the local clean-up,
\* then the unlock of the OS thread; and in every session the clean-up runs
\* while the goroutine is still locked to the thread that unshared.
C21_TeardownInv ==
    /\ cleanupRuns <= 1
    /\ cleanupRuns > 0 => ~Undeleted
    /\ (cleanupRuns > 0 /\ firstErr # "none" /\ createCalls > 0 /\ remote # "none")
          => deleteCalls > 0
    /\ (unshareCalls > 0 /\ ~locked) => (CleanupDeferred => cleanupRuns = 1)
    /\ (unshareCalls > 0 /\ ~locked) => ~Undeleted

C21_TeardownStep ==
    /\ cleanupRuns' > cleanupRuns => (locked /\ locked' /\ unshared /\ ~Undeleted)
    /\ deleteCalls' > deleteCalls => (locked /\ locked' /\ cleanupRuns = 0)
    /\ (locked /\ ~locked')
          => /\ ~Undeleted
             /\ CleanupDeferred => cleanupRuns = 1
             /\ pc = "unlock"

C21_TeardownOrder == []C21_TeardownInv /\ [][C21_TeardownStep]_vars

C21_Witness ==
    /\ firstErr = "ErrTransfer"
    /\ deleteCalls = 1
    /\ cleanupRuns = 1
    /\ ~locked
    /\ pc = "run_return"

\* C22: when a certificate was registered for the session, its deletion is
\* invoked at least once before the process ends, however run ends (return
\* with or without an error, or interrupt); without a registered certificate
\* it is never invoked.
C22_CertInv ==
    /\ (clientFingerprint # "" /\ Ended) => certDeletes >= 1
    /\ clientFingerprint = "" => certDeletes = 0
    /\ (clientFingerprint # "" /\ lpc \in {"cancel", "exit"}) => certDeletes >= 1

C22_CertStep ==
    /\ (exited = "no" /\ exited' # "no" /\ clientFingerprint # "") => certDeletes' >= 1
    /\ exited # "no" => certDeletes' = certDeletes

C22_CertificateDeleted == []C22_CertInv /\ [][C22_CertStep]_vars

C22_Witness ==
    /\ clientFingerprint # ""
    /\ exited = "os.Exit"
    /\ certDeletes = 1
    /\ pc = "ask_source"

\* C23: the conversion destination lies in the fresh temporary directory and
\* is probed before the converter has created it, so the destination probe
\* fails in every session: "-t none" is never passed to the converter and
\* the destination is written with the "-t writeback" of the command line.
C23_DestProbeInv ==
    /\ ~probeOK.to
    /\ ~HasNoCache(convFlags, "-t")
    /\ convFlags \in {<<>>, << "-T", "none" >>}
    /\ pc \in {"mkdirtemp", "detect", "lookpath", "convert"} => ConvertedImg \notin files
    /\ ConvertedImg \in files => (TmpDir \in files /\ convCalls = 1)

C23_DestProbeStep ==
    convCalls' > convCalls
        => /\ ConvertedImg \notin files
           /\ \A dio \in BOOLEAN : ~ProbeDirect(ConvertedImg \in files, dio)
           /\ ~probeOK'.to

C23_DestProbeAlwaysFails == []C23_DestProbeInv /\ [][C23_DestProbeStep]_vars

C23_Witness ==
    /\ pc = "bind_mount"
    /\ convCalls = 1
    /\ ConvertedImg \in files
    /\ ~probeOK.to
    /\ convFlags = <<>>

\* C24: in a custom-volume migration a declined final confirmation ends the
\* run with nil and the pipeline is never entered: the thread is not locked,
\* no namespace is unshared, no temporary directory and no mount is made, and
\* no remote volume is created or deleted.
C24_DeclineInv ==
    declined
        => /\ migrationType \in {MigrationTypeVolumeFilesystem, MigrationTypeVolumeBlock}
           /\ pc \in {"run_return", "done"}
           /\ result = "nil" /\ firstErr = "none"
           /\ ~locked /\ unshareCalls = 0 /\ ~unshared /\ ~rootPrivate
           /\ files = {} /\ mountTable = <<>> /\ bindAttempts = 0 /\ convCalls = 0
           /\ cleanupRuns = 0
           /\ remote = "none" /\ createCalls = 0 /\ deleteCalls = 0 /\ reverterHooks = 0
           /\ ~committed
           /\ stages = << "Initializing" >>

C24_DeclineStep ==
    (declined' /\ ~declined)
        => /\ pc = "confirm" /\ pc' = "run_return"
           /\ result' = "nil"
           /\ UNCHANGED << localVars, remoteVars >>

C24_DeclineIsNoOp == []C24_DeclineInv /\ [][C24_DeclineStep]_vars

C24_Witness ==
    /\ declined
    /\ migrationType = MigrationTypeVolumeBlock
    /\ exited = "return"
    /\ result = "nil"
    /\ createCalls = 0
====
